---- MODULE Spec2Model ----
(***************************************************************************)
(* Model of the pdf_to_docx package: ConversionConfig.validate (config.py), *)
(* the validators and create_backup (utils.py), the orchestrator            *)
(* PDFToDOCXConverter (converter.py) and the CLI entry point (cli.py).      *)
(* The PDF inspection library (fitz) and the conversion library (pdf2docx)  *)
(* are the environment: each of their calls is a nondeterministic choice    *)
(* over the outcomes the collaborator contract allows.                      *)
(***************************************************************************)
EXTENDS Integers, Sequences, FiniteSets

\* ---------------------------------------------------------------- bounds
\* largest page index / page count drawn for configs and documents
MaxPage == 5
\* largest backup index n of <f>.bak.<n> the file system model holds
MaxBackups == 2
\* calls of convert() / convert_with_progress() on one orchestrator
MaxCalls == 2

\* ------------------------------------------------------------ optionals
\* Optional[int]: None is the empty set, a present value v is {v}
None == {}
Some(v) == {v}
IsNone(x) == x = {}
Val(x) == CHOOSE v \in x : TRUE
\* Python truthiness of an Optional[int]: None and 0 are falsy
Truthy(x) == ~IsNone(x) /\ Val(x) # 0

VARIABLES
    \* ---- environment: the request and the file system
    config,            \* the ConversionConfig of the request
    pdf,               \* the input path: [kind, pages]
    out_suffix_ok,     \* docx_path.suffix.lower() = ".docx"
    out_file,          \* content at docx_path ("absent" when none)
    parent,            \* docx_path.parent: "dir", "missing" or "file"
    backups,           \* content at <f>.bak (index 0) and <f>.bak.<n>
    env0,              \* the file system as the request found it
    \* ---- orchestrator object
    obj,               \* "none", "ready" (constructed) or "failed"
    converter,         \* self.converter: "None" or "open"
    progress_callback, \* a callback is registered
    \* ---- control
    pc,                \* position of the caller / of the running call
    caller,            \* who drives the orchestrator: "none", "api" or "cli"
    frame,             \* the public call running or last run: "none",
                       \* "convert" or "cwp" (convert_with_progress)
    exc,               \* the exception in flight inside convert()
    ret,               \* how the running convert() ended
    result,            \* what the caller of the public call received
    exit_code,         \* the exit code returned by main(), -1 while none
    calls,             \* public conversion calls made on the orchestrator
    \* ---- observations of the running call
    config_errors,     \* the list config.validate() returned
    pages_to_convert,  \* the total computed by convert_with_progress()
    cb_log,            \* the callback invocations of the running call
    open_count,        \* sessions opened by the running convert()
    open_fail,         \* session opens that raised in the running convert()
    close_count,       \* sessions closed by the running convert()
    lib_outcome,       \* what the library's convert did in the running call
    pdf_io_pre,        \* opens of the PDF before the running convert() began
    pdf_io_conv,       \* opens of the PDF inside the running convert()
    backup_ret,        \* what the last create_backup() returned and wrote
    util_ret,          \* what the last direct validator call returned
    sh                 \* two orchestrators in one process: the config
                       \* objects, which one each holds, the shared logger

vars == << config, pdf, out_suffix_ok, out_file, parent, backups, env0,
           obj, converter, progress_callback,
           pc, caller, frame, exc, ret, result, exit_code, calls,
           config_errors, pages_to_convert, cb_log,
           open_count, open_fail, close_count, lib_outcome,
           pdf_io_pre, pdf_io_conv, backup_ret, util_ret, sh >>

envVars == << config, pdf, out_suffix_ok, out_file, parent, backups, env0 >>
objVars == << obj, converter, progress_callback >>
ctlVars == << pc, caller, frame, exc, ret, result, exit_code, calls >>
obsVars == << config_errors, pages_to_convert, cb_log,
              open_count, open_fail, close_count, lib_outcome,
              pdf_io_pre, pdf_io_conv >>

\* ------------------------------------------------------------ config.py
MsgStart == "start_page must be non-negative"
MsgRange == "end_page must be >= start_page"
MsgCpu == "cpu_count must be >= 1"

\* a validate() that stops at the first violation
validateFirstOnly(c) ==
    IF c.start_page < 0 THEN << MsgStart >>
    ELSE IF ~IsNone(c.end_page) /\ Val(c.end_page) < c.start_page
         THEN << MsgRange >>
    ELSE IF ~IsNone(c.cpu_count) /\ Val(c.cpu_count) < 1 THEN << MsgCpu >>
    ELSE << >>

\* ConversionConfig.validate: the list of error messages, empty if valid
validate(c) ==
    (IF c.start_page < 0 THEN << MsgStart >> ELSE << >>)
    \o (IF ~IsNone(c.end_page) /\ Val(c.end_page) < c.start_page
        THEN << MsgRange >> ELSE << >>)
    \o (IF ~IsNone(c.cpu_count) /\ Val(c.cpu_count) < 1
        THEN << MsgCpu >> ELSE << >>)

\* the configs a request may carry
OptPages == { None } \cup { Some(v) : v \in -2 .. MaxPage }
OptCpu == { None } \cup { Some(v) : v \in -1 .. 2 }
Configs ==
    [ start_page : -1 .. MaxPage, end_page : OptPages, cpu_count : OptCpu,
      overwrite : BOOLEAN, create_backup : BOOLEAN ]
\* the configs the orchestrator runs are drawn from: every combination of
\* the validate() conditions, of `end_page or total_pages`, and of the flags
RunConfigs ==
    [ start_page : { -1, 0, 1 }, end_page : { None, Some(0), Some(1) },
      cpu_count : { None, Some(0) },
      overwrite : BOOLEAN, create_backup : BOOLEAN ]
DEFAULT_CONFIG ==
    [ start_page |-> 0, end_page |-> None, cpu_count |-> None,
      overwrite |-> FALSE, create_backup |-> FALSE ]

\* ------------------------------------------------------------- utils.py
\* the input path: a missing path, a directory, a file with another suffix,
\* a .pdf file the inspection library cannot open, or a .pdf with no page,
\* one page or MaxPage pages
PdfKinds == { "missing", "dir", "wrongext", "corrupt", "pdf" }
PdfStates ==
    { [ kind |-> k, pages |-> 0 ] : k \in PdfKinds \ { "pdf" } }
    \cup { [ kind |-> "pdf", pages |-> n ] : n \in { 0, 1, MaxPage } }

\* a validate_pdf that never opens the document
validate_pdf_no_open(p) ==
    IF p.kind = "missing" THEN [ valid |-> FALSE, error |-> "NotFound", io |-> 0 ]
    ELSE IF p.kind = "dir" THEN [ valid |-> FALSE, error |-> "NotAFile", io |-> 0 ]
    ELSE IF p.kind = "wrongext"
         THEN [ valid |-> FALSE, error |-> "WrongExtension", io |-> 0 ]
    ELSE [ valid |-> TRUE, error |-> "None", io |-> 0 ]

\* validate_pdf: (is_valid, error) and whether fitz.open was called on the PDF
validate_pdf(p) ==
    IF p.kind = "missing" THEN [ valid |-> FALSE, error |-> "NotFound", io |-> 0 ]
    ELSE IF p.kind = "dir" THEN [ valid |-> FALSE, error |-> "NotAFile", io |-> 0 ]
    ELSE IF p.kind = "wrongext"
         THEN [ valid |-> FALSE, error |-> "WrongExtension", io |-> 0 ]
    ELSE IF p.kind = "corrupt"
         THEN [ valid |-> FALSE, error |-> "Unreadable", io |-> 1 ]
    ELSE IF p.pages = 0 THEN [ valid |-> FALSE, error |-> "Corrupt", io |-> 1 ]
    ELSE [ valid |-> TRUE, error |-> "None", io |-> 1 ]

\* get_file_info: never raises; pages stays 0 when the document cannot be
\* opened; fitz.open is attempted on every call
get_file_info(p) ==
    [ pages |-> IF p.kind = "pdf" THEN p.pages ELSE 0, io |-> 1 ]

\* a validate_output_path that tests existence before the overwrite flag only
validate_output_path_no_overwrite(suffix_ok, exists, overwrite, par, mkdir_ok) ==
    IF ~suffix_ok
    THEN [ valid |-> FALSE, error |-> "WrongExtension", parent |-> par ]
    ELSE IF exists
    THEN [ valid |-> FALSE, error |-> "AlreadyExists", parent |-> par ]
    ELSE IF par = "missing" /\ ~mkdir_ok
    THEN [ valid |-> FALSE, error |-> "DirectoryCreationFailed", parent |-> par ]
    ELSE IF par = "file"
    THEN [ valid |-> FALSE, error |-> "NotADirectory", parent |-> par ]
    ELSE [ valid |-> TRUE, error |-> "None", parent |-> "dir" ]

\* validate_output_path: (is_valid, error) and the parent directory after
\* the call (parent.mkdir runs when the parent is missing)
validate_output_path(suffix_ok, exists, overwrite, par, mkdir_ok) ==
    IF ~suffix_ok
    THEN [ valid |-> FALSE, error |-> "WrongExtension", parent |-> par ]
    ELSE IF exists /\ ~overwrite
    THEN [ valid |-> FALSE, error |-> "AlreadyExists", parent |-> par ]
    ELSE IF par = "missing" /\ ~mkdir_ok
    THEN [ valid |-> FALSE, error |-> "DirectoryCreationFailed", parent |-> par ]
    ELSE IF par = "file"
    THEN [ valid |-> FALSE, error |-> "NotADirectory", parent |-> par ]
    ELSE [ valid |-> TRUE, error |-> "None", parent |-> "dir" ]

\* file contents: no file, the content found before the request, the
\* content a conversion writes, and a truncated (interrupted) write
Contents == { "absent", "old", "new", "partial" }
BackupIdx == 0 .. MaxBackups
NoBackups == [ n \in BackupIdx |-> "absent" ]
\* does the backup with index n exist (names past the model's range are free)
BackupExists(b, n) == n \in DOMAIN b /\ b[n] # "absent"

\* a probe that always settles on <f>.bak
probe_first_name(b, path, counter) == 0

\* the while loop of create_backup: path is the candidate (0 is <f>.bak,
\* n is <f>.bak.<n>), counter the next suffix to try
RECURSIVE probe_loop(_, _, _)
probe_loop(b, path, counter) ==
    IF BackupExists(b, path) THEN probe_loop(b, counter, counter + 1) ELSE path

probe(b, path, counter) == probe_loop(b, path, counter)

\* the name create_backup settles on: backup_path = <f>.bak, counter = 1
backup_target(b) == probe(b, 0, 1)

\* create_backup(file_path): the returned path (None when the file is absent
\* or the copy failed) and the backups after it; copy is what shutil.copy2
\* does: "ok", "fail" (nothing written), "fail_partial" (target left behind)
create_backup(file, b, copy) ==
    IF file = "absent"
    THEN [ ret |-> None, backups |-> b ]
    ELSE LET t == backup_target(b) IN
         IF copy = "ok"
         THEN [ ret |-> Some(t), backups |-> [ b EXCEPT ![t] = file ] ]
         ELSE IF copy = "fail_partial"
         THEN [ ret |-> None, backups |-> [ b EXCEPT ![t] = "partial" ] ]
         ELSE [ ret |-> None, backups |-> b ]
CopyOutcomes == { "ok", "fail", "fail_partial" }

\* ------------------------------------------- two orchestrators, one process
Inst == { "A", "B" }
\* the config objects of the process: the module-level DEFAULT_CONFIG and
\* the ConversionConfig each request may build for itself
OwnCfg(i) == IF i = "A" THEN "cfgA" ELSE "cfgB"
CfgObjs == { "DEFAULT", "cfgA", "cfgB" }
NoShared ==
    [ heap |-> [ o \in CfgObjs |-> DEFAULT_CONFIG ],
      ref |-> [ i \in Inst |-> "none" ],
      st |-> [ i \in Inst |-> "none" ],
      out_exists |-> [ i \in Inst |-> FALSE ],
      used |-> [ i \in Inst |-> << >> ],
      logger |-> "none",
      writer |-> "none" ]

\* ------------------------------------------------------- initial states
NoResult == [ kind |-> "none", site |-> "none", cause |-> "none" ]
Snapshot == [ out_file |-> out_file, parent |-> parent, backups |-> backups ]
NoBackupRet ==
    [ ret |-> None, file |-> "absent", copy |-> "none", call |-> 0,
      before |-> NoBackups, after |-> NoBackups,
      hist |-> << >>, clean |-> FALSE ]
NoUtilRet ==
    [ existed |-> FALSE, suffix_ok |-> FALSE, overwrite |-> FALSE,
      valid |-> FALSE, error |-> "none" ]

\* an existing output file lies in an existing directory, and so do its
\* backups
OutStates ==
    { [ file |-> f, parent |-> d ] :
        f \in { "absent", "old" }, d \in { "dir", "missing", "file" } }
    \ { [ file |-> "old", parent |-> d ] : d \in { "missing", "file" } }

InitObj ==
    /\ obj = "none"
    /\ converter = "None"
    /\ progress_callback = FALSE

InitCtl ==
    /\ pc = "start"
    /\ caller = "none"
    /\ frame = "none"
    /\ exc = "none"
    /\ ret = NoResult
    /\ result = NoResult
    /\ exit_code = -1
    /\ calls = 0

InitObs ==
    /\ config_errors = << >>
    /\ pages_to_convert = 0
    /\ cb_log = << >>
    /\ open_count = 0
    /\ open_fail = 0
    /\ close_count = 0
    /\ lib_outcome = "none"
    /\ pdf_io_pre = 0
    /\ pdf_io_conv = 0
    /\ util_ret = NoUtilRet

\* -------------------------------------------- ConversionConfig.validate()
InitValidate ==
    /\ config \in Configs
    /\ pdf = [ kind |-> "pdf", pages |-> 1 ]
    /\ out_suffix_ok = TRUE
    /\ out_file = "absent"
    /\ parent = "dir"
    /\ backups = NoBackups
    /\ env0 = Snapshot
    /\ backup_ret = NoBackupRet
    /\ sh = NoShared
    /\ InitObj /\ InitCtl /\ InitObs

\* a direct call of config.validate()
CallValidate ==
    /\ pc = "start"
    /\ config_errors' = validate(config)
    /\ pc' = "done"
    /\ UNCHANGED << envVars, objVars, caller, frame, exc, ret, result,
                    exit_code, calls, pages_to_convert, cb_log, open_count,
                    open_fail, close_count, lib_outcome, pdf_io_pre,
                    pdf_io_conv, backup_ret, util_ret, sh >>

NextValidate == CallValidate
SpecValidate == InitValidate /\ [][NextValidate]_vars

\* ------------------------------------- direct calls of the utils functions
InitUtils ==
    /\ config = DEFAULT_CONFIG
    /\ pdf = [ kind |-> "pdf", pages |-> 1 ]
    /\ out_suffix_ok \in BOOLEAN
    /\ \E o \in OutStates : out_file = o.file /\ parent = o.parent
    /\ backups \in [ BackupIdx -> { "absent", "old" } ]
    /\ backups # NoBackups => parent = "dir"
    /\ env0 = Snapshot
    /\ backup_ret = [ NoBackupRet EXCEPT !.clean = (backups = NoBackups) ]
    /\ sh = NoShared
    /\ InitObj /\ InitCtl /\ InitObs

\* what a create_backup call leaves in backup_ret: the returned path, the
\* outcome of shutil.copy2, the call of convert() it was made in (0 for a
\* direct call), the
\* file copied, the backups before and after the call, and the paths returned since
\* the last moment no backup existed (clean: nothing else touched them)
BackupRecord(r, file, copy, before, old) ==
    [ ret |-> r.ret, file |-> file, copy |-> copy, call |-> calls,
      before |-> before, after |-> r.backups,
      hist |-> IF IsNone(r.ret) THEN old.hist
               ELSE Append(old.hist, Val(r.ret)),
      clean |-> old.clean /\ (IsNone(r.ret) => r.backups = before) ]

\* create_backup(docx_path) called directly
UtilCreateBackup ==
    /\ pc = "start"
    /\ backup_target(backups) <= MaxBackups
    /\ \E copy \in CopyOutcomes :
         LET r == create_backup(out_file, backups, copy) IN
         /\ backups' = r.backups
         /\ backup_ret' = BackupRecord(r, out_file, copy, backups, backup_ret)
    /\ UNCHANGED << config, pdf, out_suffix_ok, out_file, parent, env0,
                    objVars, ctlVars, obsVars, util_ret, sh >>

\* somebody removes one backup file
UtilDeleteBackup ==
    /\ pc = "start"
    /\ \E n \in BackupIdx :
         /\ backups[n] # "absent"
         /\ backups' = [ backups EXCEPT ![n] = "absent" ]
    /\ backup_ret' = [ backup_ret EXCEPT !.hist = << >>,
                                         !.clean = (backups' = NoBackups) ]
    /\ UNCHANGED << config, pdf, out_suffix_ok, out_file, parent, env0,
                    objVars, ctlVars, obsVars, util_ret, sh >>

\* the file is rewritten between two backups
UtilRewriteFile ==
    /\ pc = "start"
    /\ out_file # "absent"
    /\ out_file' = IF out_file = "old" THEN "new" ELSE "old"
    /\ UNCHANGED << config, pdf, out_suffix_ok, parent, backups, env0,
                    objVars, ctlVars, obsVars, backup_ret, util_ret, sh >>

\* validate_output_path(docx_path, overwrite) called directly
UtilValidateOutputPath ==
    /\ pc = "start"
    /\ \E overwrite \in BOOLEAN, mkdir_ok \in BOOLEAN :
         LET r == validate_output_path(out_suffix_ok, out_file # "absent",
                                       overwrite, parent, mkdir_ok) IN
         /\ parent' = r.parent
         /\ util_ret' = [ existed |-> out_file # "absent",
                          suffix_ok |-> out_suffix_ok,
                          overwrite |-> overwrite,
                          valid |-> r.valid, error |-> r.error ]
    /\ pc' = "done"
    /\ UNCHANGED << config, pdf, out_suffix_ok, out_file, backups, env0,
                    objVars, caller, frame, exc, ret, result, exit_code,
                    calls, obsVars, backup_ret, sh >>

NextUtils ==
    \/ UtilCreateBackup
    \/ UtilDeleteBackup
    \/ UtilRewriteFile
    \/ UtilValidateOutputPath
SpecUtils == InitUtils /\ [][NextUtils]_vars

\* ------------------------------------------------ properties of the utils
Count(seq, m) == Cardinality({ i \in 1 .. Len(seq) : seq[i] = m })
B2N(b) == IF b THEN 1 ELSE 0

\* C6: validate() returns every violation, not just the first: the list holds
\* exactly one message for each of start_page < 0, end_page present and
\* below start_page, cpu_count present and below 1 that holds, nothing else,
\* and is empty exactly when none of the three holds.
C6_ValidateReturnsAll ==
    pc = "done" =>
      LET bad_start == config.start_page < 0
          bad_range == config.end_page # None
                       /\ Val(config.end_page) < config.start_page
          bad_cpu == config.cpu_count # None /\ Val(config.cpu_count) < 1
      IN /\ Count(config_errors, MsgStart) = B2N(bad_start)
         /\ Count(config_errors, MsgRange) = B2N(bad_range)
         /\ Count(config_errors, MsgCpu) = B2N(bad_cpu)
         /\ Len(config_errors) = B2N(bad_start) + B2N(bad_range) + B2N(bad_cpu)
         /\ (config_errors = << >>) <=> ~(bad_start \/ bad_range \/ bad_cpu)

\* validate() has run on a config that breaks all three rules at once
C6_Witness == pc = "done" /\ Len(config_errors) = 3

\* is n the first free backup name of b: <f>.bak, else the smallest n >= 1
FirstFree(b, n) ==
    /\ b[n] = "absent"
    /\ \A m \in 0 .. (n - 1) : b[m] # "absent"

\* C7: create_backup on an existing file copies it to <f>.bak if that name is
\* free, otherwise to <f>.bak.<n> for the smallest free n >= 1, and returns
\* that path; no call changes a backup that existed before it; two backups
\* in a row starting from no backup at all return <f>.bak and then <f>.bak.1.
C7_BackupSmallestFreeName ==
    LET r == backup_ret IN
    /\ \A n \in BackupIdx :
         r.before[n] # "absent" => r.after[n] = r.before[n]
    /\ (r.file # "absent" /\ r.copy = "ok") => r.ret # None
    /\ r.ret # None =>
         /\ r.file # "absent"
         /\ FirstFree(r.before, Val(r.ret))
         /\ r.after = [ r.before EXCEPT ![Val(r.ret)] = r.file ]
    /\ (r.clean /\ Len(r.hist) >= 1) => r.hist[1] = 0
    /\ (r.clean /\ Len(r.hist) >= 2) => r.hist[2] = 1

\* two backups were taken in a row of a file that had none: .bak, .bak.1
C7_Witness ==
    /\ backup_ret.clean
    /\ backup_ret.hist = << 0, 1 >>
    /\ backup_ret.before[0] # "absent"

\* the statement of C8 as claimed, for every existing path
C8_AsClaimed ==
    (pc = "done" /\ util_ret.existed) =>
      IF util_ret.overwrite THEN util_ret.valid
      ELSE ~util_ret.valid /\ util_ret.error = "AlreadyExists"

\* C8 (amended): validate_output_path on an existing path whose suffix is
\* .docx fails with AlreadyExists when overwrite = false and succeeds when
\* overwrite = true; with another suffix it fails with WrongExtension
\* whatever overwrite is.
C8_ExistingDocxPath ==
    (pc = "done" /\ util_ret.existed) =>
      IF ~util_ret.suffix_ok
      THEN ~util_ret.valid /\ util_ret.error = "WrongExtension"
      ELSE IF util_ret.overwrite THEN util_ret.valid
      ELSE ~util_ret.valid /\ util_ret.error = "AlreadyExists"

\* an existing .docx path was validated with overwrite = true and accepted
C8_Witness ==
    /\ pc = "done"
    /\ util_ret.existed /\ util_ret.suffix_ok
    /\ util_ret.overwrite /\ util_ret.valid

\* ---------------------------------------------------------- converter.py
reqVars == << config, pdf, out_suffix_ok, env0 >>
cntVars == << open_count, open_fail, close_count >>

\* the per-call observations as a call of convert() finds them
ResetCall ==
    /\ config_errors' = << >>
    /\ open_count' = 0
    /\ open_fail' = 0
    /\ close_count' = 0
    /\ lib_outcome' = "none"
    /\ exc' = "none"
    /\ ret' = NoResult
    /\ result' = NoResult

\* the requests the orchestrator is run on
Init ==
    /\ config \in RunConfigs
    /\ pdf \in PdfStates
    /\ out_suffix_ok \in BOOLEAN
    /\ \E o \in OutStates : out_file = o.file /\ parent = o.parent
    /\ backups \in { NoBackups, [ NoBackups EXCEPT ![0] = "old" ] }
    /\ backups # NoBackups => parent = "dir"
    /\ env0 = Snapshot
    /\ backup_ret = NoBackupRet
    /\ sh = NoShared
    /\ InitObj /\ InitCtl /\ InitObs

\* PDFToDOCXConverter.__init__: validate the input, validate the output
\* path (which may create its parent directory), set up logging; a failed
\* validation raises ValueError, which main() catches
Construct ==
    /\ pc \in { "start", "construct" }
    /\ caller' = IF caller = "none" THEN "api" ELSE caller
    /\ LET v == validate_pdf(pdf)
           fail_pc == IF caller = "cli" THEN "cli_end" ELSE "done" IN
       /\ pdf_io_pre' = pdf_io_pre + v.io
       /\ IF ~v.valid
          THEN /\ obj' = "failed"
               /\ result' = [ kind |-> "ValueError", site |-> "init:49",
                              cause |-> v.error ]
               /\ pc' = fail_pc
               /\ parent' = parent
          ELSE \E mkdir_ok \in BOOLEAN :
                 LET o == validate_output_path(out_suffix_ok,
                              out_file # "absent", config.overwrite,
                              parent, mkdir_ok) IN
                 /\ parent' = o.parent
                 /\ IF ~o.valid
                    THEN /\ obj' = "failed"
                         /\ result' = [ kind |-> "ValueError",
                                        site |-> "init:60",
                                        cause |-> o.error ]
                         /\ pc' = fail_pc
                    ELSE /\ obj' = "ready"
                         /\ result' = result
                         /\ pc' = "idle"
    /\ converter' = "None"
    /\ progress_callback' = FALSE
    /\ UNCHANGED << reqVars, out_file, backups, frame, exc, ret, exit_code,
                    calls, config_errors, pages_to_convert, cb_log, cntVars,
                    lib_outcome, pdf_io_conv, backup_ret, util_ret, sh >>

\* set_progress_callback: the last callback registered is the active one
SetProgressCallback ==
    /\ pc = "idle" /\ caller = "api"
    /\ progress_callback' = TRUE
    /\ UNCHANGED << envVars, obj, converter, ctlVars, obsVars,
                    backup_ret, util_ret, sh >>

\* a caller enters convert()
ConvertCall ==
    /\ pc = "idle"
    /\ calls < MaxCalls
    /\ caller = "cli" => calls = 0
    /\ calls' = calls + 1
    /\ frame' = "convert"
    /\ pc' = "validate"
    /\ ResetCall
    /\ cb_log' = << >>
    /\ pdf_io_pre' = pdf_io_pre + pdf_io_conv
    /\ pdf_io_conv' = 0
    /\ UNCHANGED << envVars, objVars, caller, exit_code, pages_to_convert,
                    backup_ret, util_ret, sh >>

\* convert_with_progress, up to its call of convert(): a fresh inspection
\* of the input, the page total, the first callback invocation
CwpCall ==
    /\ pc = "idle" /\ caller = "api"
    /\ calls < MaxCalls
    /\ calls' = calls + 1
    /\ frame' = "cwp"
    /\ pc' = "validate"
    /\ ResetCall
    /\ LET info == get_file_info(pdf)
           total_pages == info.pages
           start == config.start_page
           end == IF Truthy(config.end_page) THEN Val(config.end_page)
                  ELSE total_pages
           total == end - start + 1 IN
       /\ pages_to_convert' = total
       /\ cb_log' = IF progress_callback
                    THEN << [ current |-> 0, total |-> total ] >>
                    ELSE << >>
       /\ pdf_io_pre' = pdf_io_pre + pdf_io_conv + info.io
    /\ pdf_io_conv' = 0
    /\ UNCHANGED << envVars, objVars, caller, exit_code,
                    backup_ret, util_ret, sh >>

\* convert(), first statement: config.validate(); a non-empty list raises
\* ValueError outside the try block. inspect_first is the number of
\* inspections of the PDF made before the check (none in the code)
convert_validate(inspect_first) ==
    /\ pc = "validate"
    /\ config_errors' = validate(config)
    /\ pdf_io_conv' = pdf_io_conv + inspect_first
    /\ IF config_errors' # << >>
       THEN /\ ret' = [ kind |-> "ValueError", site |-> "convert:117",
                        cause |-> "InvalidConfig" ]
            /\ pc' = "conv_done"
       ELSE /\ ret' = ret
            /\ pc' = "inspect"
    /\ UNCHANGED << envVars, objVars, caller, frame, exc, result, exit_code,
                    calls, pages_to_convert, cb_log, cntVars, lib_outcome,
                    pdf_io_pre, backup_ret, util_ret, sh >>

ConvertValidateAfterInspect == convert_validate(1)

ConvertValidate == convert_validate(0)

\* _log_file_info: one inspection of the PDF, for the log only; next_pc
\* is the statement of convert() that follows (the backup step)
log_file_info(next_pc) ==
    /\ pc = "inspect"
    /\ pdf_io_conv' = pdf_io_conv + get_file_info(pdf).io
    /\ pc' = next_pc
    /\ UNCHANGED << envVars, objVars, caller, frame, exc, ret, result,
                    exit_code, calls, config_errors, pages_to_convert,
                    cb_log, cntVars, lib_outcome, pdf_io_pre,
                    backup_ret, util_ret, sh >>

LogFileInfoThenOpen == log_file_info("open")

LogFileInfo == log_file_info("backup")

\* _create_backup_if_needed: a backup when the output exists and
\* config.create_backup is set; its result is only logged. fatal is
\* whether a failed copy ends convert() with an error (it does not in the
\* code: create_backup catches the failure and returns None)
create_backup_if_needed(fatal) ==
    /\ pc = "backup"
    /\ IF out_file # "absent" /\ config.create_backup
       THEN /\ backup_target(backups) <= MaxBackups
            /\ \E copy \in CopyOutcomes :
                 LET r == create_backup(out_file, backups, copy) IN
                 /\ backups' = r.backups
                 /\ backup_ret' =
                      BackupRecord(r, out_file, copy, backups, backup_ret)
                 /\ IF fatal /\ copy # "ok"
                    THEN /\ ret' = [ kind |-> "RuntimeError",
                                     site |-> "create_backup",
                                     cause |-> "CopyError" ]
                         /\ pc' = "conv_done"
                    ELSE /\ ret' = ret
                         /\ pc' = "open"
       ELSE /\ UNCHANGED << backups, backup_ret, ret >>
            /\ pc' = "open"
    /\ UNCHANGED << reqVars, out_file, parent, objVars, caller, frame, exc,
                    result, exit_code, calls, obsVars, util_ret, sh >>

CreateBackupIfNeededFatal == create_backup_if_needed(TRUE)

CreateBackupIfNeeded == create_backup_if_needed(FALSE)

\* self.converter = PDF2DOCXConverter(pdf_path): the session opens, or the
\* library raises and self.converter stays None
OpenSession ==
    /\ pc = "open"
    /\ pdf_io_conv' = pdf_io_conv + 1
    /\ \E ok \in BOOLEAN :
         IF ok
         THEN /\ converter' = "open"
              /\ open_count' = open_count + 1
              /\ pc' = "convert"
              /\ UNCHANGED << open_fail, exc >>
         ELSE /\ open_fail' = open_fail + 1
              /\ exc' = "OpenError"
              /\ pc' = "except"
              /\ UNCHANGED << converter, open_count >>
    /\ UNCHANGED << envVars, obj, progress_callback, caller, frame, ret,
                    result, exit_code, calls, config_errors,
                    pages_to_convert, cb_log, close_count, lib_outcome,
                    pdf_io_pre, backup_ret, util_ret, sh >>

\* self.converter.convert(docx_path, start, end): the library writes the
\* output, returns without writing anything, raises, or is interrupted by
\* the user; a failed or interrupted run may leave a truncated output
ConvertOutcomes == { "wrote", "nofile", "raise", "interrupt" }
SessionConvert ==
    /\ pc = "convert"
    /\ \E o \in ConvertOutcomes, partial \in BOOLEAN :
         /\ lib_outcome' = o
         /\ out_file' = IF o = "wrote" THEN "new"
                        ELSE IF o = "nofile" THEN out_file
                        ELSE IF partial THEN "partial" ELSE out_file
         /\ exc' = IF o = "raise" THEN "ConvertError"
                   ELSE IF o = "interrupt" THEN "KeyboardInterrupt"
                   ELSE exc
         /\ pc' = IF o = "raise" THEN "except"
                  ELSE IF o = "interrupt" THEN "finally"
                  ELSE "verify"
    /\ UNCHANGED << reqVars, parent, backups, objVars, caller, frame, ret,
                    result, exit_code, calls, config_errors,
                    pages_to_convert, cb_log, cntVars, pdf_io_pre,
                    pdf_io_conv, backup_ret, util_ret, sh >>

\* the check that the output exists: a RuntimeError raised inside the try
\* block when it does not, the return of docx_path when it does
VerifyOutput ==
    /\ pc = "verify"
    /\ IF out_file = "absent"
       THEN /\ exc' = "OutputNotCreated"
            /\ pc' = "except"
            /\ ret' = ret
       ELSE /\ ret' = [ kind |-> "ok", site |-> "convert:153",
                        cause |-> "none" ]
            /\ pc' = "finally"
            /\ exc' = exc
    /\ UNCHANGED << envVars, objVars, caller, frame, result, exit_code, calls,
                    obsVars, backup_ret, util_ret, sh >>

\* except Exception as e: raise RuntimeError(...) from e; keep_cause is
\* whether the new error is chained to e
except_handler(keep_cause) ==
    /\ pc = "except"
    /\ ret' = [ kind |-> "RuntimeError", site |-> "convert:157",
                cause |-> IF keep_cause THEN exc ELSE "none" ]
    /\ exc' = "none"
    /\ pc' = "finally"
    /\ UNCHANGED << envVars, objVars, caller, frame, result, exit_code, calls,
                    obsVars, backup_ret, util_ret, sh >>

ExceptHandlerNoCause == except_handler(FALSE)

ExceptHandler == except_handler(TRUE)

\* finally: close the session if one is held and forget it; an exception
\* no handler caught (KeyboardInterrupt) goes on to the caller. do_close
\* is whether the close is made
finally_block(do_close) ==
    /\ pc = "finally"
    /\ IF converter # "None"
       THEN /\ close_count' = IF do_close THEN close_count + 1
                              ELSE close_count
            /\ converter' = IF do_close THEN "None" ELSE converter
       ELSE UNCHANGED << close_count, converter >>
    /\ IF exc = "KeyboardInterrupt"
       THEN /\ ret' = [ kind |-> "KeyboardInterrupt", site |-> "library",
                        cause |-> "none" ]
            /\ exc' = "none"
       ELSE UNCHANGED << ret, exc >>
    /\ pc' = "conv_done"
    /\ UNCHANGED << envVars, obj, progress_callback, caller, frame, result,
                    exit_code, calls, config_errors, pages_to_convert,
                    cb_log, open_count, open_fail, lib_outcome, pdf_io_pre,
                    pdf_io_conv, backup_ret, util_ret, sh >>

FinallyNoClose == finally_block(FALSE)

Finally == finally_block(TRUE)

\* convert() called directly hands its result or failure to its caller
ConvertReturn ==
    /\ pc = "conv_done"
    /\ frame = "convert"
    /\ result' = ret
    /\ pc' = IF caller = "cli" THEN "cli_end" ELSE "idle"
    /\ UNCHANGED << envVars, objVars, caller, frame, exc, ret, exit_code,
                    calls, obsVars, backup_ret, util_ret, sh >>

\* convert_with_progress after convert(): (total, total) on success; in
\* the except Exception branch (0, total) and the failure re-raised; a
\* KeyboardInterrupt is no Exception and passes through. reset_on_error
\* is whether the except branch invokes the callback
cwp_after(reset_on_error) ==
    /\ pc = "conv_done"
    /\ frame = "cwp"
    /\ cb_log' =
         IF ~progress_callback THEN cb_log
         ELSE IF ret.kind = "ok"
         THEN Append(cb_log, [ current |-> pages_to_convert,
                               total |-> pages_to_convert ])
         ELSE IF ret.kind \in { "ValueError", "RuntimeError" }
                 /\ reset_on_error
         THEN Append(cb_log, [ current |-> 0, total |-> pages_to_convert ])
         ELSE cb_log
    /\ result' = ret
    /\ pc' = "idle"
    /\ UNCHANGED << envVars, objVars, caller, frame, exc, ret, exit_code,
                    calls, config_errors, pages_to_convert, cntVars,
                    lib_outcome, pdf_io_pre, pdf_io_conv,
                    backup_ret, util_ret, sh >>

CwpAfterNoReset == cwp_after(FALSE)

CwpAfter == cwp_after(TRUE)

\* __exit__: close the session if one is still held; the with block ends
Exit ==
    /\ pc = "idle" /\ caller = "api"
    /\ IF converter # "None"
       THEN /\ close_count' = close_count + 1
            /\ converter' = "None"
       ELSE UNCHANGED << close_count, converter >>
    /\ pc' = "done"
    /\ UNCHANGED << envVars, obj, progress_callback, caller, frame, exc, ret,
                    result, exit_code, calls, config_errors,
                    pages_to_convert, cb_log, open_count, open_fail,
                    lib_outcome, pdf_io_pre, pdf_io_conv,
                    backup_ret, util_ret, sh >>

\* ----------------------------------------------------------------- cli.py
\* main() up to the construction of the orchestrator: argparse exits with
\* code 2 on arguments it cannot parse; a missing input returns 1; with
\* verbose set print_file_info inspects the PDF
CliStart ==
    /\ pc = "start"
    /\ \E args_ok \in BOOLEAN, verbose \in BOOLEAN :
         IF ~args_ok
         THEN /\ exit_code' = 2
              /\ pc' = "exited"
              /\ pdf_io_pre' = pdf_io_pre
         ELSE IF pdf.kind = "missing"
         THEN /\ exit_code' = 1
              /\ pc' = "exited"
              /\ pdf_io_pre' = pdf_io_pre
         ELSE /\ exit_code' = exit_code
              /\ pc' = "construct"
              /\ pdf_io_pre' = pdf_io_pre
                               + (IF verbose THEN get_file_info(pdf).io ELSE 0)
    /\ caller' = "cli"
    /\ UNCHANGED << envVars, objVars, frame, exc, ret, result, calls,
                    config_errors, pages_to_convert, cb_log, cntVars,
                    lib_outcome, pdf_io_conv, backup_ret, util_ret, sh >>

\* main() after the try block: 0 on success, 130 on KeyboardInterrupt,
\* 1 on any other exception. own_clause is whether KeyboardInterrupt has
\* its own except clause (without one it ends like any other failure)
cli_finish(own_clause) ==
    /\ pc = "cli_end"
    /\ exit_code' = IF result.kind = "ok" THEN 0
                    ELSE IF result.kind = "KeyboardInterrupt" /\ own_clause
                    THEN 130
                    ELSE 1
    /\ pc' = "exited"
    /\ UNCHANGED << envVars, objVars, caller, frame, exc, ret, result, calls,
                    obsVars, backup_ret, util_ret, sh >>

CliFinishOneClause == cli_finish(FALSE)

CliFinish == cli_finish(TRUE)

Next ==
    \/ Construct
    \/ SetProgressCallback
    \/ ConvertCall
    \/ CwpCall
    \/ ConvertValidate
    \/ LogFileInfo
    \/ CreateBackupIfNeeded
    \/ OpenSession
    \/ SessionConvert
    \/ VerifyOutput
    \/ ExceptHandler
    \/ Finally
    \/ ConvertReturn
    \/ CwpAfter
    \/ Exit
    \/ CliStart
    \/ CliFinish

Spec == Init /\ [][Next]_vars

\* ------------------------------------------- properties of the orchestrator
\* the running convert() has ended (its finally block has run)
ConvertEnded == pc = "conv_done"
\* no convert() is running
Quiet == pc \in { "start", "construct", "idle", "done", "cli_end", "exited" }

\* the statement of C1 as claimed: one open and one close on every exit path
C1_AsClaimed == ConvertEnded => (open_count = 1 /\ close_count = 1)

\* C1 (amended): on every exit path of convert() every session the call
\* opened has been closed exactly once and none is left open: close_count
\* equals open_count, which is 1 when the config was valid and the open
\* succeeded and 0 when the config was invalid or the open itself raised;
\* at no point are there more closes than opens.
C1_SessionClosedOnce ==
    /\ close_count <= open_count
    /\ open_count <= 1
    /\ (converter = "open") <=> (open_count = close_count + 1)
    /\ (ConvertEnded \/ Quiet) => (close_count = open_count /\ converter = "None")
    /\ ConvertEnded =>
         (open_count = 1 <=> (config_errors = << >> /\ open_fail = 0))

\* a convert() that failed after opening the session has closed it
C1_Witness ==
    /\ ConvertEnded
    /\ ret.kind = "RuntimeError"
    /\ open_count = 1 /\ close_count = 1

\* C2: when the library's convert reports success and writes no file,
\* convert() fails with the OutputNotProduced error itself (the RuntimeError
\* of line 146), not with the ConversionFailed wrapper, and does not return.
C2_AsClaimed ==
    (ConvertEnded /\ lib_outcome = "nofile") =>
      (ret.kind = "RuntimeError" /\ ret.site = "convert:146")

\* the config of the request breaks none of the rules of validate()
ConfigValid ==
    /\ config.start_page >= 0
    /\ config.end_page # None => Val(config.end_page) >= config.start_page
    /\ config.cpu_count # None => Val(config.cpu_count) >= 1

\* C3: the total convert_with_progress() passes to the callback is the size
\* of the selected zero-based inclusive range of a valid config: end_page -
\* start_page + 1 when end_page is present (0 included), page_count -
\* start_page when it is absent.
C3_AsClaimed ==
    (frame = "cwp" /\ ConfigValid) =>
      \A i \in 1 .. Len(cb_log) :
        cb_log[i].total =
          IF config.end_page # None
          THEN Val(config.end_page) - config.start_page + 1
          ELSE pdf.pages - config.start_page

\* the statement of C4 as claimed: no I/O against the PDF at any step from
\* the construction of the orchestrator to the InvalidConfig failure
C4_AsClaimed ==
    (ConvertEnded /\ ret.kind = "ValueError") =>
      (pdf_io_pre + pdf_io_conv = 0 /\ open_count = 0 /\ open_fail = 0)

\* C4 (amended): convert() on an invalid config fails with InvalidConfig
\* before convert() itself performs any I/O against the PDF (no inspection,
\* no session open, no conversion); the constructor has by then already
\* opened the document once in validate_pdf to read its page count.
C4_InvalidConfigBeforeConvertIO ==
    /\ (ConvertEnded /\ ret.kind = "ValueError") =>
         /\ pdf_io_conv = 0
         /\ open_count = 0 /\ open_fail = 0
         /\ lib_outcome = "none"
         /\ pdf_io_pre >= 1
    /\ (~ConfigValid /\ ConvertEnded) => ret.kind = "ValueError"
    /\ (pdf_io_conv > 0 \/ open_count > 0 \/ open_fail > 0) => ConfigValid

\* a direct convert() ended with InvalidConfig
C4_Witness ==
    /\ ConvertEnded /\ frame = "convert"
    /\ ret.kind = "ValueError" /\ ret.cause = "InvalidConfig"

CbFirst == [ current |-> 0, total |-> pages_to_convert ]
CbDone == [ current |-> pages_to_convert, total |-> pages_to_convert ]
CwpRunning == frame = "cwp" /\ ~Quiet
CwpReturning == frame = "cwp" /\ ConvertEnded

InputInvalid == pdf.kind # "pdf" \/ pdf.pages = 0
OutputInvalid ==
    \/ ~out_suffix_ok
    \/ env0.out_file # "absent" /\ ~config.overwrite
    \/ env0.parent = "file"

\* C9: when input or output-path validation fails the orchestrator is never
\* constructed, so no session is opened, no backup is taken and no output
\* is written; the file system is as the request found it, except that the
\* output's parent directory may have been created. A missing input ends
\* main() with exit code 1 before anything is constructed.
C9_ValidationAbortsBeforeIO ==
    /\ (InputInvalid \/ OutputInvalid) => obj # "ready"
    /\ obj # "ready" =>
         /\ open_count = 0 /\ open_fail = 0 /\ lib_outcome = "none"
         /\ calls = 0
         /\ backup_ret = NoBackupRet
         /\ backups = env0.backups
         /\ out_file = env0.out_file
         /\ parent = env0.parent \/ (env0.parent = "missing" /\ parent = "dir")
    /\ obj = "failed" => result.kind = "ValueError"
    /\ (caller = "cli" /\ pc = "exited" /\ obj = "failed") => exit_code = 1
    /\ (caller = "cli" /\ pc = "exited" /\ pdf.kind = "missing"
        /\ exit_code # 2) =>
         (exit_code = 1 /\ obj = "none" /\ parent = env0.parent)

\* main() ended with exit code 1 on a missing input
C9_Witness ==
    /\ caller = "cli" /\ pc = "exited"
    /\ pdf.kind = "missing"
    /\ exit_code = 1

\* C10: a failure the library raises, when opening the session or when
\* converting, reaches the caller of convert() as one RuntimeError raised
\* by the except clause with the library's error as its cause; an invalid
\* config reaches the caller as a ValueError that is not wrapped.
C10_FailuresWrapped ==
    /\ ConvertEnded =>
         /\ open_fail > 0 =>
              ret = [ kind |-> "RuntimeError", site |-> "convert:157",
                      cause |-> "OpenError" ]
         /\ lib_outcome = "raise" =>
              ret = [ kind |-> "RuntimeError", site |-> "convert:157",
                      cause |-> "ConvertError" ]
         /\ config_errors # << >> =>
              ret = [ kind |-> "ValueError", site |-> "convert:117",
                      cause |-> "InvalidConfig" ]
    /\ (Quiet /\ calls > 0) => result = ret

\* the caller of convert() got the wrapped failure of the session open
C10_Witness ==
    /\ pc = "idle" /\ frame = "convert"
    /\ result.kind = "RuntimeError"
    /\ result.cause = "OpenError"

\* ------------------------------------------------------ backup failures
\* the backup of the running convert() failed: create_backup was called in
\* this call and its copy raised
BackupFailedNow ==
    /\ calls > 0
    /\ backup_ret.call = calls
    /\ backup_ret.copy \in { "fail", "fail_partial" }

\* how a convert() on a valid config ends, from what the session did alone
SessionOutcome ==
    IF open_fail > 0
    THEN [ kind |-> "RuntimeError", site |-> "convert:157",
           cause |-> "OpenError" ]
    ELSE IF lib_outcome = "raise"
    THEN [ kind |-> "RuntimeError", site |-> "convert:157",
           cause |-> "ConvertError" ]
    ELSE IF lib_outcome = "interrupt"
    THEN [ kind |-> "KeyboardInterrupt", site |-> "library",
           cause |-> "none" ]
    ELSE IF out_file = "absent"
    THEN [ kind |-> "RuntimeError", site |-> "convert:157",
           cause |-> "OutputNotCreated" ]
    ELSE [ kind |-> "ok", site |-> "convert:153", cause |-> "none" ]

\* C11: a failed backup is never fatal: when the output exists, create_backup
\* is set and the copy fails, create_backup returns no backup, leaves the
\* output as it was, and convert() goes on to open the session and run the
\* conversion; how convert() ends depends only on what the session then
\* does, as it does when no backup is attempted.
C11_BackupFailureNotFatal ==
    /\ BackupFailedNow =>
         /\ backup_ret.ret = None
         /\ backup_ret.file # "absent" /\ config.create_backup
         /\ pc \notin { "validate", "inspect", "backup" }
    /\ (BackupFailedNow /\ pc = "open") =>
         /\ ret = NoResult /\ exc = "none"
         /\ out_file = backup_ret.file
    /\ (BackupFailedNow /\ ConvertEnded) => open_count + open_fail = 1
    /\ (ConvertEnded /\ config_errors = << >>) => ret = SessionOutcome

\* a convert() whose backup failed went on and succeeded
C11_Witness ==
    /\ BackupFailedNow
    /\ ConvertEnded
    /\ open_count = 1 /\ lib_outcome = "wrote"
    /\ ret.kind = "ok"

\* -------------------------------------------------------------- exit codes
CliExited == caller = "cli" /\ pc = "exited"

Phase(p) ==
    IF p = "validate" THEN "Validating"
    ELSE IF p = "inspect" THEN "Inspecting"
    ELSE IF p = "backup" THEN "BackingUp"
    ELSE IF p = "open" THEN "SessionOpen"
    ELSE IF p = "convert" THEN "Converting"
    ELSE IF p = "verify" THEN "Verifying"
    ELSE IF p = "except" THEN "Failed"
    ELSE IF p \in { "finally", "conv_done" } THEN "SessionClosed"
    ELSE "Idle"

\* the moves of the state machine: the chain of the spec, a failure out of
\* any phase that can fail, and the release of the session after it
PhaseMoves ==
    { << "Idle", "Validating" >>, << "Validating", "Inspecting" >>,
      << "Inspecting", "BackingUp" >>, << "BackingUp", "SessionOpen" >>,
      << "SessionOpen", "Converting" >>, << "Converting", "Verifying" >>,
      << "Verifying", "SessionClosed" >>,
      << "Validating", "SessionClosed" >>,
      << "SessionOpen", "Failed" >>, << "Converting", "Failed" >>,
      << "Verifying", "Failed" >>, << "Converting", "SessionClosed" >>,
      << "Failed", "SessionClosed" >>, << "SessionClosed", "Idle" >> }

\* C13: one convert() passes through its phases only in the order Idle,
\* Validating, Inspecting, BackingUp, SessionOpen, Converting, Verifying,
\* then success or failure, then SessionClosed: a phase is entered only from
\* its predecessor (a failure leaves the chain for Failed or, when no
\* handler applies, straight for the release); a backup is written only in
\* BackingUp, with the output present and create_backup set, before any
\* session is opened; the output is checked only after the library's
\* convert returned; no session is held once the call has ended, however
\* it ended.
C13_PhaseOrder ==
    /\ [][ Phase(pc') = Phase(pc)
           \/ << Phase(pc), Phase(pc') >> \in PhaseMoves ]_vars
    /\ [][ backups' # backups =>
             /\ pc = "backup" /\ pc' = "open"
             /\ out_file # "absent" /\ config.create_backup
             /\ open_count = 0 /\ open_fail = 0 /\ converter = "None" ]_vars
    /\ [][ (open_count' # open_count \/ open_fail' # open_fail) =>
             (pc = "open" \/ Phase(pc) = "Idle") ]_vars
    /\ [](pc \in { "validate", "inspect", "backup", "open" } =>
            (open_count = 0 /\ converter = "None" /\ lib_outcome = "none"))
    /\ [](pc = "convert" => (converter = "open" /\ lib_outcome = "none"))
    /\ [](pc = "verify" =>
            (converter = "open" /\ lib_outcome \in { "wrote", "nofile" }))
    /\ []((ConvertEnded /\ ret.kind = "ok") =>
            (lib_outcome \in { "wrote", "nofile" } /\ out_file # "absent"))
    /\ [](ConvertEnded => (ret # NoResult /\ converter = "None"))

\* a convert() that took a backup, opened the session and failed in the
\* conversion has released the session
C13_Witness ==
    /\ ConvertEnded
    /\ backup_ret.call = calls /\ backup_ret.ret # None
    /\ lib_outcome = "raise"
    /\ ret.kind = "RuntimeError"
    /\ close_count = 1 /\ converter = "None"

\* ------------------------------------- two orchestrators in one process
\* the rest of the state while two orchestrators are looked at: each runs on
\* a valid input of its own
restVars ==
    << envVars, objVars, ctlVars, obsVars, backup_ret, util_ret >>

\* the policies a request's own config may carry
PolicyConfigs ==
    { [ DEFAULT_CONFIG EXCEPT !.overwrite = o, !.create_backup = b ] :
        o \in BOOLEAN, b \in BOOLEAN }

InitShared ==
    /\ config = DEFAULT_CONFIG
    /\ pdf = [ kind |-> "pdf", pages |-> 1 ]
    /\ out_suffix_ok = TRUE
    /\ out_file = "absent"
    /\ parent = "dir"
    /\ backups = NoBackups
    /\ env0 = Snapshot
    /\ backup_ret = NoBackupRet
    /\ InitObj /\ InitCtl /\ InitObs
    /\ \E ca \in PolicyConfigs, cb \in PolicyConfigs,
          ea \in BOOLEAN, eb \in BOOLEAN :
         sh = [ NoShared EXCEPT
                  !.heap = [ o \in CfgObjs |->
                               IF o = "cfgA" THEN ca
                               ELSE IF o = "cfgB" THEN cb
                               ELSE DEFAULT_CONFIG ],
                  !.out_exists = [ i \in Inst |->
                                     IF i = "A" THEN ea ELSE eb ] ]

\* PDFToDOCXConverter.__init__ of instance i, with an explicit config of
\* its own or with none: self.config = config or DEFAULT_CONFIG, then the
\* validations (the output path against self.config.overwrite), then
\* setup_logging, which reconfigures the one logger of the process
SharedConstruct(i) ==
    /\ sh.st[i] = "none"
    /\ \E explicit \in BOOLEAN :
         LET r == IF explicit THEN OwnCfg(i) ELSE "DEFAULT"
             v == validate_pdf(pdf)
             o == validate_output_path(TRUE, sh.out_exists[i],
                                       sh.heap[r].overwrite, "dir", TRUE)
             ok == v.valid /\ o.valid IN
         sh' = [ sh EXCEPT !.ref[i] = r,
                           !.st[i] = IF ok THEN "ready" ELSE "failed",
                           !.logger = IF ok THEN i ELSE sh.logger,
                           !.writer = "none" ]
    /\ UNCHANGED restVars

\* the owner of instance i changes the policy of its request through
\* i.config (ConversionConfig is a plain, unfrozen dataclass)
SharedSetConfig(i) ==
    /\ sh.st[i] = "ready"
    /\ \E c \in PolicyConfigs :
         /\ c # sh.heap[sh.ref[i]]
         /\ sh' = [ sh EXCEPT !.heap[sh.ref[i]] = c, !.writer = i ]
    /\ UNCHANGED restVars

\* convert() of instance i reads its page range and its backup policy from
\* self.config
SharedConvert(i) ==
    /\ sh.st[i] = "ready"
    /\ sh' = [ sh EXCEPT !.used[i] = << sh.heap[sh.ref[i]] >>,
                         !.writer = "none" ]
    /\ UNCHANGED restVars

NextShared ==
    \E i \in Inst :
      \/ SharedConstruct(i)
      \/ SharedSetConfig(i)
      \/ SharedConvert(i)

SpecShared == InitShared /\ [][NextShared]_vars

\* the config instance i holds
SeenConfig(s, i) == s.heap[s.ref[i]]

\* C14: two orchestrators share no config: however the two were constructed,
\* a change made to the config one of them holds never changes the config
\* (page range, overwrite and backup policy) the other holds.
C14_AsClaimed ==
    [][ \A i \in Inst :
          (sh.ref[i] # "none" /\ sh'.ref[i] = sh.ref[i] /\ sh'.writer # i)
            => SeenConfig(sh', i) = SeenConfig(sh, i) ]_vars

\* ------------------------------------------- the overwrite policy over calls
\* C15: with config.overwrite false no call of convert() replaces an output
\* file that existed when the call started, and no backup is taken: in a call
\* that found the output present, neither the backup step nor the library's
\* convert changes the output file or the backups, and the library writes
\* nothing.
C15_AsClaimed ==
    [][ (~config.overwrite /\ out_file # "absent"
           /\ pc \in { "backup", "convert" })
          => (out_file' = out_file /\ backups' = backups
                /\ lib_outcome' # "wrote") ]_vars

====
